---------------------------- MODULE Spec2Model ----------------------------
(***************************************************************************)
(* A model of watcher.py: a daemon that reads watch sections from a        *)
(* configuration file, registers one inotify subscription per section     *)
(* (pyinotify WatchManager.add_watch), starts one ThreadedNotifier per     *)
(* section, and runs the section's shell command for every event the      *)
(* notifier hands to the section's EventHandler.                           *)
(*                                                                         *)
(* Text (configuration values, paths, command lines) is modelled as        *)
(* sequences of one-character strings, so that splitting, trimming,        *)
(* quoting, template substitution and shell word splitting are computed    *)
(* the way the code (and the shell that os.system starts) computes them.   *)
(***************************************************************************)
EXTENDS Integers, Sequences, FiniteSets, TLC

(***************************************************************************)
(* Bounds of the model.                                                    *)
(***************************************************************************)
\* number of kernel events generated in one behaviour (all watches together)
MaxEvents == 2
\* longest file name drawn for the quoting specification
MaxNameLen == 3
\* longest token list drawn for the mask specification
MaxTokens == 3

(***************************************************************************)
(* pyinotify's event bits, as named in _parse_mask.                        *)
(***************************************************************************)
IN_ACCESS == 1
IN_MODIFY == 2
IN_ATTRIB == 4
IN_CLOSE_WRITE == 8
IN_CLOSE_NOWRITE == 16
IN_OPEN == 32
IN_MOVED_FROM == 64
IN_MOVED_TO == 128
IN_CREATE == 256
IN_DELETE == 512
IN_DELETE_SELF == 1024
IN_MOVE_SELF == 2048

\* the twelve primitive event kinds, by pyinotify's name
Kinds ==
    {"IN_ACCESS", "IN_ATTRIB", "IN_CLOSE_WRITE", "IN_CLOSE_NOWRITE",
     "IN_CREATE", "IN_DELETE", "IN_DELETE_SELF", "IN_MODIFY", "IN_MOVE_SELF",
     "IN_MOVED_FROM", "IN_MOVED_TO", "IN_OPEN"}

KindBit(k) ==
    CASE k = "IN_ACCESS" -> IN_ACCESS
      [] k = "IN_ATTRIB" -> IN_ATTRIB
      [] k = "IN_CLOSE_WRITE" -> IN_CLOSE_WRITE
      [] k = "IN_CLOSE_NOWRITE" -> IN_CLOSE_NOWRITE
      [] k = "IN_CREATE" -> IN_CREATE
      [] k = "IN_DELETE" -> IN_DELETE
      [] k = "IN_DELETE_SELF" -> IN_DELETE_SELF
      [] k = "IN_MODIFY" -> IN_MODIFY
      [] k = "IN_MOVE_SELF" -> IN_MOVE_SELF
      [] k = "IN_MOVED_FROM" -> IN_MOVED_FROM
      [] k = "IN_MOVED_TO" -> IN_MOVED_TO
      [] k = "IN_OPEN" -> IN_OPEN

\* event.maskname as text
KindText(k) ==
    CASE k = "IN_ACCESS" -> <<"I", "N", "_", "A", "C", "C", "E", "S", "S">>
      [] k = "IN_ATTRIB" -> <<"I", "N", "_", "A", "T", "T", "R", "I", "B">>
      [] k = "IN_CLOSE_WRITE" -> <<"I", "N", "_", "C", "L", "O", "S", "E", "_", "W", "R", "I", "T", "E">>
      [] k = "IN_CLOSE_NOWRITE" -> <<"I", "N", "_", "C", "L", "O", "S", "E", "_", "N", "O", "W", "R", "I", "T", "E">>
      [] k = "IN_CREATE" -> <<"I", "N", "_", "C", "R", "E", "A", "T", "E">>
      [] k = "IN_DELETE" -> <<"I", "N", "_", "D", "E", "L", "E", "T", "E">>
      [] k = "IN_DELETE_SELF" -> <<"I", "N", "_", "D", "E", "L", "E", "T", "E", "_", "S", "E", "L", "F">>
      [] k = "IN_MODIFY" -> <<"I", "N", "_", "M", "O", "D", "I", "F", "Y">>
      [] k = "IN_MOVE_SELF" -> <<"I", "N", "_", "M", "O", "V", "E", "_", "S", "E", "L", "F">>
      [] k = "IN_MOVED_FROM" -> <<"I", "N", "_", "M", "O", "V", "E", "D", "_", "F", "R", "O", "M">>
      [] k = "IN_MOVED_TO" -> <<"I", "N", "_", "M", "O", "V", "E", "D", "_", "T", "O">>
      [] k = "IN_OPEN" -> <<"I", "N", "_", "O", "P", "E", "N">>

(***************************************************************************)
(* Integers as bit sets: Python's | and &.                                 *)
(***************************************************************************)
RECURSIVE BitOr(_, _)
BitOr(a, b) ==
    IF a = 0 THEN b
    ELSE IF b = 0 THEN a
    ELSE (IF a % 2 = 1 \/ b % 2 = 1 THEN 1 ELSE 0) + 2 * BitOr(a \div 2, b \div 2)

\* bit is a power of two
HasBit(m, bit) == (m \div bit) % 2 = 1

\* the backquote character (a string of the module cannot hold it)
BackQuote == "backquote"

(***************************************************************************)
(* Text helpers: str.strip, str.split(","), str(int).                     *)
(***************************************************************************)
Whitespace == {" ", "\t", "\n"}

RECURSIVE LStrip(_)
LStrip(s) ==
    IF s # <<>> /\ Head(s) \in Whitespace THEN LStrip(Tail(s)) ELSE s

RECURSIVE RStrip(_)
RStrip(s) ==
    IF s # <<>> /\ s[Len(s)] \in Whitespace
    THEN RStrip(SubSeq(s, 1, Len(s) - 1))
    ELSE s

Strip(s) == RStrip(LStrip(s))

\* str.split(","): the list of the fields between commas; one (empty) field
\* for the empty text
RECURSIVE SplitFrom(_, _, _)
SplitFrom(s, i, field) ==
    IF i > Len(s) THEN <<field>>
    ELSE IF s[i] = "," THEN <<field>> \o SplitFrom(s, i + 1, <<>>)
    ELSE SplitFrom(s, i + 1, Append(field, s[i]))

Split(s) == SplitFrom(s, 1, <<>>)

Digits == <<"0", "1", "2", "3", "4", "5", "6", "7", "8", "9">>

RECURSIVE IntToStr(_)
IntToStr(n) ==
    IF n < 10 THEN <<Digits[n + 1]>>
    ELSE Append(IntToStr(n \div 10), Digits[(n % 10) + 1])

(***************************************************************************)
(* WatcherDaemon._add_mask and _parse_mask.  Python's False, the value of  *)
(* ret before a token is recognized, is the integer 0.                     *)
(***************************************************************************)
\* an _add_mask that forgets the options it was given
_add_maskOverwrites(new_option, current_options) == new_option

_add_mask(new_option, current_options) ==
    IF current_options = 0 THEN new_option
    ELSE BitOr(current_options, new_option)

AllMask ==
    BitOr(IN_ACCESS, BitOr(IN_ATTRIB, BitOr(IN_CLOSE_WRITE,
    BitOr(IN_CLOSE_NOWRITE, BitOr(IN_CREATE, BitOr(IN_DELETE,
    BitOr(IN_DELETE_SELF, BitOr(IN_MODIFY, BitOr(IN_MOVE_SELF,
    BitOr(IN_MOVED_FROM, BitOr(IN_MOVED_TO, IN_OPEN)))))))))))

\* one pass of the loop body of _parse_mask: the if/elif chain on a token
ParseToken(token, ret) ==
    LET mask == Strip(token) IN
    CASE mask = <<"a", "c", "c", "e", "s", "s">> -> _add_mask(IN_ACCESS, ret)
      [] mask = <<"a", "t", "t", "r", "i", "b", "u", "t", "e", "_", "c", "h", "a", "n", "g", "e">> -> _add_mask(IN_ATTRIB, ret)
      [] mask = <<"w", "r", "i", "t", "e", "_", "c", "l", "o", "s", "e">> -> _add_mask(IN_CLOSE_WRITE, ret)
      [] mask = <<"n", "o", "w", "r", "i", "t", "e", "_", "c", "l", "o", "s", "e">> -> _add_mask(IN_CLOSE_NOWRITE, ret)
      [] mask = <<"c", "r", "e", "a", "t", "e">> -> _add_mask(IN_CREATE, ret)
      [] mask = <<"d", "e", "l", "e", "t", "e">> -> _add_mask(IN_DELETE, ret)
      [] mask = <<"s", "e", "l", "f", "_", "d", "e", "l", "e", "t", "e">> -> _add_mask(IN_DELETE_SELF, ret)
      [] mask = <<"m", "o", "d", "i", "f", "y">> -> _add_mask(IN_MODIFY, ret)
      [] mask = <<"s", "e", "l", "f", "_", "m", "o", "v", "e">> -> _add_mask(IN_MOVE_SELF, ret)
      [] mask = <<"m", "o", "v", "e", "_", "f", "r", "o", "m">> -> _add_mask(IN_MOVED_FROM, ret)
      [] mask = <<"m", "o", "v", "e", "_", "t", "o">> -> _add_mask(IN_MOVED_TO, ret)
      [] mask = <<"o", "p", "e", "n">> -> _add_mask(IN_OPEN, ret)
      [] mask = <<"a", "l", "l">> -> _add_mask(AllMask, ret)
      [] mask = <<"m", "o", "v", "e">> -> _add_mask(BitOr(IN_MOVED_FROM, IN_MOVED_TO), ret)
      [] mask = <<"c", "l", "o", "s", "e">> ->
            _add_mask(BitOr(IN_CLOSE_WRITE, IN_CLOSE_NOWRITE), ret)
      [] OTHER -> ret

\* a loop that gives up at the first token it does not know
RECURSIVE ParseMaskFromStops(_, _, _)
ParseMaskFromStops(masks, i, ret) ==
    IF i > Len(masks) \/ ParseToken(masks[i], 0) = 0 THEN ret
    ELSE ParseMaskFromStops(masks, i + 1, ParseToken(masks[i], ret))

RECURSIVE ParseMaskFrom(_, _, _)
ParseMaskFrom(masks, i, ret) ==
    IF i > Len(masks) THEN ret
    ELSE ParseMaskFrom(masks, i + 1, ParseToken(masks[i], ret))

\* a _parse_mask that starts from every kind instead of from none
_parse_maskFromAll(masks) == ParseMaskFrom(masks, 1, AllMask)

_parse_mask(masks) == ParseMaskFrom(masks, 1, 0)

(***************************************************************************)
(* EventHandler.shellquote: the text in single quotes, every embedded      *)
(* single quote replaced by '\''.                                          *)
(***************************************************************************)
RECURSIVE ReplaceQuote(_)
ReplaceQuote(s) ==
    IF s = <<>> THEN <<>>
    ELSE (IF Head(s) = "'" THEN <<"'", "\\", "'", "'">> ELSE <<Head(s)>>)
         \o ReplaceQuote(Tail(s))

\* a quoting that wraps the text but leaves embedded quotes alone
shellquoteNoEscape(string) == <<"'">> \o string \o <<"'">>

shellquote(string) == <<"'">> \o ReplaceQuote(string) \o <<"'">>

(***************************************************************************)
(* string.Template.substitute: "$$" is "$", "$name" and "${name}" are      *)
(* replaced by mapping[name]; an unknown name raises KeyError, any other   *)
(* "$" raises ValueError.  The result is [err, text]; err is "none" when   *)
(* the substitution succeeds.  The leftmost error is the one raised.       *)
(***************************************************************************)
IdStart ==
    {"_", "a", "b", "c", "d", "e", "f", "g", "h", "i", "j", "k", "l", "m",
     "n", "o", "p", "q", "r", "s", "t", "u", "v", "w", "x", "y", "z"}

IdChar == IdStart \cup {"0", "1", "2", "3", "4", "5", "6", "7", "8", "9"}

\* the last index of the identifier that starts at index i
RECURSIVE IdEnd(_, _)
IdEnd(t, i) ==
    IF i + 1 <= Len(t) /\ t[i + 1] \in IdChar THEN IdEnd(t, i + 1) ELSE i

SubstJoin(piece, rest) ==
    IF rest.err # "none" THEN rest
    ELSE [err |-> "none", text |-> piece \o rest.text]

RECURSIVE SubstFrom(_, _, _)
SubstFrom(t, i, mapping) ==
    IF i > Len(t) THEN [err |-> "none", text |-> <<>>]
    ELSE IF t[i] # "$" THEN SubstJoin(<<t[i]>>, SubstFrom(t, i + 1, mapping))
    ELSE IF i + 1 <= Len(t) /\ t[i + 1] = "$"
         THEN SubstJoin(<<"$">>, SubstFrom(t, i + 2, mapping))
    ELSE IF i + 1 <= Len(t) /\ t[i + 1] \in IdStart
         THEN LET j == IdEnd(t, i + 1) IN
              IF SubSeq(t, i + 1, j) \in DOMAIN mapping
              THEN SubstJoin(mapping[SubSeq(t, i + 1, j)],
                             SubstFrom(t, j + 1, mapping))
              ELSE [err |-> "KeyError", text |-> SubSeq(t, i + 1, j)]
    ELSE IF i + 2 <= Len(t) /\ t[i + 1] = "{" /\ t[i + 2] \in IdStart
            /\ IdEnd(t, i + 2) + 1 <= Len(t) /\ t[IdEnd(t, i + 2) + 1] = "}"
         THEN LET j == IdEnd(t, i + 2) IN
              IF SubSeq(t, i + 2, j) \in DOMAIN mapping
              THEN SubstJoin(mapping[SubSeq(t, i + 2, j)],
                             SubstFrom(t, j + 2, mapping))
              ELSE [err |-> "KeyError", text |-> SubSeq(t, i + 2, j)]
    ELSE [err |-> "ValueError", text |-> <<>>]

substitute(template, mapping) == SubstFrom(template, 1, mapping)

(***************************************************************************)
(* The event object pyinotify passes to a handler: path is the watched     *)
(* directory, pathname the path the event is about (the directory itself   *)
(* when name is empty), maskname and mask the kind, and cookie an          *)
(* attribute that only the two halves of a rename carry.                   *)
(***************************************************************************)
MoveKinds == {"IN_MOVED_FROM", "IN_MOVED_TO"}

SelfKinds == {"IN_DELETE_SELF", "IN_MOVE_SELF"}

\* a path that is only the name the event carries (event.name)
PathnameOfName(dir, name) == name

Pathname(dir, name) == IF name = <<>> THEN dir ELSE dir \o <<"/">> \o name

\* a cookie value that is empty for an event without the attribute
CookieValueEmpty(event) ==
    IF event.kind \in MoveKinds THEN IntToStr(event.cookie) ELSE <<>>

\* the value run_command quotes for ${cookie}:
\* event.cookie if hasattr(event, "cookie") else 0
CookieValue(event) ==
    IF event.kind \in MoveKinds THEN IntToStr(event.cookie) ELSE IntToStr(0)

(***************************************************************************)
(* EventHandler.run_command, up to the call of os.system: the command      *)
(* template with the five placeholders replaced by the quoted values.      *)
(***************************************************************************)
Placeholders(event) ==
    (<<"w", "a", "t", "c", "h", "e", "d">> :> shellquote(event.dir))
    @@ (<<"f", "i", "l", "e", "n", "a", "m", "e">> :> shellquote(Pathname(event.dir, event.name)))
    @@ (<<"t", "f", "l", "a", "g", "s">> :> shellquote(KindText(event.kind)))
    @@ (<<"n", "f", "l", "a", "g", "s">> :> shellquote(IntToStr(KindBit(event.kind))))
    @@ (<<"c", "o", "o", "k", "i", "e">> :> shellquote(CookieValue(event)))

Expand(command, event) == substitute(command, Placeholders(event))

(***************************************************************************)
(* The shell that os.system starts (sh -c command): token recognition of   *)
(* the POSIX shell over the characters of the model.  A blank ends a word, *)
(* ";" ends a command; a single quote keeps everything up to the next      *)
(* single quote; a backslash keeps the next character; a double quote      *)
(* keeps everything up to the next double quote, except that $ and ` stay  *)
(* active in it and \ escapes $ ` " and \.  The result is the list of      *)
(* commands (each a list of words), the number of ";" operators, whether   *)
(* an expansion or command substitution ($x, $$, `) was met outside single *)
(* quotes, and whether every quote was closed.                             *)
(***************************************************************************)
ShStart ==
    [mode |-> "plain", word |-> <<>>, inword |-> FALSE, words |-> <<>>,
     cmds |-> <<>>, seps |-> 0, active |-> FALSE]

ShEndWord(st) ==
    IF st.inword
    THEN [st EXCEPT !.words = Append(st.words, st.word), !.word = <<>>,
                    !.inword = FALSE]
    ELSE st

ShEndCommand(st) ==
    LET w == ShEndWord(st) IN
    IF w.words # <<>>
    THEN [w EXCEPT !.cmds = Append(w.cmds, w.words), !.words = <<>>]
    ELSE w

ShLiteral(st, c) == [st EXCEPT !.word = Append(st.word, c), !.inword = TRUE]

\* a "$" starts an expansion when a name or another "$" follows it
ShExpands(s, i) == i + 1 <= Len(s) /\ s[i + 1] \in IdStart \cup {"$", "{"}

RECURSIVE ShLex(_, _, _)
ShLex(s, i, st) ==
    IF i > Len(s)
    THEN LET e == ShEndCommand(st) IN
         [cmds |-> e.cmds, seps |-> e.seps, active |-> e.active,
          closed |-> (st.mode = "plain")]
    ELSE IF st.mode = "single"
    THEN IF s[i] = "'" THEN ShLex(s, i + 1, [st EXCEPT !.mode = "plain"])
         ELSE ShLex(s, i + 1, ShLiteral(st, s[i]))
    ELSE IF st.mode = "double"
    THEN IF s[i] = "\"" THEN ShLex(s, i + 1, [st EXCEPT !.mode = "plain"])
         ELSE IF s[i] = "\\" /\ i + 1 <= Len(s)
                 /\ s[i + 1] \in {"$", BackQuote, "\"", "\\"}
         THEN ShLex(s, i + 2, ShLiteral(st, s[i + 1]))
         ELSE IF s[i] = BackQuote \/ (s[i] = "$" /\ ShExpands(s, i))
         THEN ShLex(s, i + 1, [ShLiteral(st, s[i]) EXCEPT !.active = TRUE])
         ELSE ShLex(s, i + 1, ShLiteral(st, s[i]))
    ELSE IF s[i] = "'"
    THEN ShLex(s, i + 1, [st EXCEPT !.mode = "single", !.inword = TRUE])
    ELSE IF s[i] = "\""
    THEN ShLex(s, i + 1, [st EXCEPT !.mode = "double", !.inword = TRUE])
    ELSE IF s[i] = "\\"
    THEN IF i + 1 <= Len(s) THEN ShLex(s, i + 2, ShLiteral(st, s[i + 1]))
         ELSE ShLex(s, i + 1, ShLiteral(st, s[i]))
    ELSE IF s[i] \in Whitespace THEN ShLex(s, i + 1, ShEndWord(st))
    ELSE IF s[i] = ";"
    THEN ShLex(s, i + 1, [ShEndCommand(st) EXCEPT !.seps = st.seps + 1])
    ELSE IF s[i] = BackQuote \/ (s[i] = "$" /\ ShExpands(s, i))
    THEN ShLex(s, i + 1, [ShLiteral(st, s[i]) EXCEPT !.active = TRUE])
    ELSE ShLex(s, i + 1, ShLiteral(st, s[i]))

ShParse(line) == ShLex(line, 1, ShStart)

\* the lexer's mode after reading the first n characters of line
RECURSIVE ShModeAt(_, _, _, _)
ShModeAt(s, i, n, mode) ==
    IF i > n THEN mode
    ELSE IF mode = "single"
    THEN ShModeAt(s, i + 1, n, IF s[i] = "'" THEN "plain" ELSE "single")
    ELSE IF mode = "double"
    THEN IF s[i] = "\\" /\ i + 1 <= Len(s)
            /\ s[i + 1] \in {"$", BackQuote, "\"", "\\"}
         THEN (IF i + 1 > n THEN "escape" ELSE ShModeAt(s, i + 2, n, "double"))
         ELSE ShModeAt(s, i + 1, n, IF s[i] = "\"" THEN "plain" ELSE "double")
    ELSE IF s[i] = "\\"
    THEN (IF i + 1 > n THEN "escape" ELSE ShModeAt(s, i + 2, n, "plain"))
    ELSE ShModeAt(s, i + 1, n,
                  IF s[i] = "'" THEN "single"
                  ELSE IF s[i] = "\"" THEN "double" ELSE "plain")

(***************************************************************************)
(* pyinotify.ExcludeFilter: a list of regular expressions; a path is       *)
(* excluded when re.match finds one of them at the start of the path.      *)
(* The expressions of the model use literal characters, "\" before a       *)
(* literal, "." for any character, "*" after either, and "$" at the end.   *)
(***************************************************************************)
ReAtomWidth(p, i) == IF p[i] = "\\" /\ i + 1 <= Len(p) THEN 2 ELSE 1

ReAtomMatches(p, i, c) ==
    IF p[i] = "\\" /\ i + 1 <= Len(p) THEN c = p[i + 1]
    ELSE IF p[i] = "." THEN TRUE
    ELSE c = p[i]

RECURSIVE ReMatchHere(_, _, _, _)
ReMatchHere(p, i, t, j) ==
    IF i > Len(p) THEN TRUE
    ELSE IF p[i] = "$" /\ i = Len(p) THEN j > Len(t)
    ELSE LET w == ReAtomWidth(p, i) IN
         IF i + w <= Len(p) /\ p[i + w] = "*"
         THEN \E k \in j..(Len(t) + 1) :
                 /\ \A m \in j..(k - 1) : ReAtomMatches(p, i, t[m])
                 /\ ReMatchHere(p, i + w + 1, t, k)
         ELSE /\ j <= Len(t)
              /\ ReAtomMatches(p, i, t[j])
              /\ ReMatchHere(p, i + w, t, j + 1)

\* regex.match(path) is not None
ReMatch(regex, path) == ReMatchHere(regex, 1, path, 1)

\* ExcludeFilter.__call__, for the list of expressions lregex
ExcludeFilter(lregex, path) ==
    \E n \in 1..Len(lregex) : ReMatch(lregex[n], path)

(***************************************************************************)
(* The configuration file.  Two watch sections, on two different           *)
(* directories; each directory holds one file and one subdirectory "s"     *)
(* with one file.  A section is a function from option names to text; an   *)
(* option the file does not give is not in its domain.                     *)
(***************************************************************************)
Watches == {1, 2}

LastWatch == Cardinality(Watches)

Root(w) == IF w = 1 THEN <<"/", "t", "m", "p", "/", "x">> ELSE <<"/", "t", "m", "p", "/", "y">>

SubDir(w) == Root(w) \o <<"/", "s">>

\* the directories that exist, and the files in them
ExistingDirs == {Root(w) : w \in Watches} \cup {SubDir(w) : w \in Watches}

FilesIn(d) ==
    IF d = Root(1) THEN {<<"a", ".", "t", "x", "t">>}
    ELSE IF d = Root(2) THEN {<<"b", ".", "t", "m", "p">>}
    ELSE {<<"c">>}

\* os.walk below a directory, for add_watch(rec=True)
SubDirsOf(d) == {SubDir(w) : w \in {v \in Watches : Root(v) = d}}

\* the two sections run different commands
Command(w) ==
    IF w = 1 THEN <<"e", "c", "h", "o", " ", "$", "{", "f", "i", "l", "e", "n", "a", "m", "e", "}">>
    ELSE <<"l", "o", "g", " ", "$", "t", "f", "l", "a", "g", "s", " ", "$", "{", "n", "f", "l", "a", "g", "s", "}", " ", "$", "c", "o", "o", "k", "i", "e", " ", "$", "{", "w", "a", "t", "c", "h", "e", "d", "}">>

BaseSection(w) ==
    [watch |-> Root(w), events |-> <<"c", "r", "e", "a", "t", "e", ",", "d", "e", "l", "e", "t", "e">>,
     recursive |-> <<"f", "a", "l", "s", "e">>, autoadd |-> <<"f", "a", "l", "s", "e">>, excluded |-> <<>>,
     command |-> Command(w)]

Variants ==
    {"base", "all", "selfdel", "nocommand", "badbool", "nopath", "excl",
     "rec", "badtmpl", "dollar"}

Section(w, v) ==
    CASE v = "base" -> BaseSection(w)
      [] v = "all" -> [BaseSection(w) EXCEPT !.events = <<"a", "l", "l">>]
      [] v = "selfdel" ->
            [BaseSection(w) EXCEPT !.events = <<"m", "o", "d", "i", "f", "y", ",", " ", "s", "e", "l", "f", "_", "d", "e", "l", "e", "t", "e">>]
      [] v = "nocommand" ->
            [o \in {"watch", "events", "recursive", "autoadd", "excluded"}
                |-> BaseSection(w)[o]]
      [] v = "badbool" -> [BaseSection(w) EXCEPT !.recursive = <<"m", "a", "y", "b", "e">>]
      [] v = "nopath" -> [BaseSection(w) EXCEPT !.watch = <<"/", "g", "o", "n", "e">>]
      [] v = "excl" ->
            [BaseSection(w) EXCEPT !.recursive = <<"t", "r", "u", "e">>,
                                   !.excluded = <<".", "*", "\\", ".", "t", "m", "p", "$", ",", ".", "*", "/", "s", "$">>]
      [] v = "rec" ->
            [BaseSection(w) EXCEPT !.recursive = <<"y", "e", "s">>,
                                   !.excluded = <<" ">>]
      [] v = "badtmpl" -> [BaseSection(w) EXCEPT !.command = <<"e", "c", "h", "o", " ", "$", "{", "f", "i", "l", "e", "}">>]
      [] v = "dollar" ->
            [BaseSection(w) EXCEPT !.command = <<"e", "c", "h", "o", " ", "$", "$", " ", "$", "{", "f", "i", "l", "e", "n", "a", "m", "e", "}">>]

\* ConfigParser.getboolean: "True", "False", or "ValueError"
GetBoolean(text) ==
    IF text \in {<<"1">>, <<"y", "e", "s">>, <<"t", "r", "u", "e">>, <<"o", "n">>} THEN "True"
    ELSE IF text \in {<<"0">>, <<"n", "o">>, <<"f", "a", "l", "s", "e">>, <<"o", "f", "f">>} THEN "False"
    ELSE "ValueError"

\* the section's part of run() raises before add_watch: config.get on a
\* missing option (NoOptionError) or getboolean on a malformed value
SetupRaises(section) ==
    \/ \E o \in {"watch", "events", "recursive", "autoadd", "excluded",
                 "command"} : o \notin DOMAIN section
    \/ GetBoolean(section.recursive) = "ValueError"
    \/ GetBoolean(section.autoadd) = "ValueError"

\* excluded.strip() == ""
ExcludedIsBlank(excluded) == Strip(excluded) = <<>>

\* an exclude filter that excludes nothing
ExclNever(excluded, path) == FALSE

\* the predicate add_watch gets as exclude_filter (None excludes nothing)
Excl(excluded, path) ==
    IF ExcludedIsBlank(excluded) THEN FALSE
    ELSE ExcludeFilter(Split(excluded), path)

(***************************************************************************)
(* watch_manager.add_watch(folder, mask, rec, auto_add, exclude_filter),   *)
(* with its default quiet=True: the directories that get a kernel watch.   *)
(* A directory that does not exist, or a mask without any event bit, makes *)
(* inotify_add_watch fail; add_watch logs that and returns a negative      *)
(* watch descriptor instead of raising.  An excluded path is skipped.      *)
(***************************************************************************)
AddWatch(folder, mask, recursive, excluded) ==
    {d \in {folder} \cup (IF recursive THEN SubDirsOf(folder) ELSE {}) :
        /\ d \in ExistingDirs
        /\ mask # 0
        /\ ~Excl(excluded, d)}

(***************************************************************************)
(* EventHandler: the kinds it defines a process_in_<kind> method for, and  *)
(* what the method prints before run_command.  An event of another kind    *)
(* goes to the inherited process_default, which runs no command.           *)
(***************************************************************************)
HandledKinds ==
    {"IN_ACCESS", "IN_ATTRIB", "IN_CLOSE_WRITE", "IN_CLOSE_NOWRITE",
     "IN_CREATE", "IN_DELETE", "IN_MODIFY", "IN_MOVE_SELF", "IN_MOVED_FROM",
     "IN_MOVED_TO", "IN_OPEN"}

Label(k) ==
    CASE k = "IN_ACCESS" -> "Access: "
      [] k = "IN_ATTRIB" -> "Attrib: "
      [] k = "IN_CLOSE_WRITE" -> "Close write: "
      [] k = "IN_CLOSE_NOWRITE" -> "Close nowrite: "
      [] k = "IN_CREATE" -> "Creating: "
      [] k = "IN_DELETE" -> "Deleteing: "
      [] k = "IN_MODIFY" -> "Modify: "
      [] k = "IN_MOVE_SELF" -> "Move self: "
      [] k = "IN_MOVED_FROM" -> "Moved from: "
      [] k = "IN_MOVED_TO" -> "Moved to: "
      [] k = "IN_OPEN" -> "Opened: "

\* every notifier calls the handler created last
NotifierHandlerShared(w) == LastWatch

\* the handler ThreadedNotifier(watch_manager, handler) of section w calls:
\* the EventHandler(command) made for that section
NotifierHandler(w) == w

\* the next event a notifier takes from its queue: the newest
NextIndexNewest(q) == Len(q)

\* the next event a notifier takes from its queue: the oldest
NextIndex(q) == 1

\* os.system(command): it reports a command that could not be launched by
\* its return value and raises nothing
OsSystem(command, launched) ==
    [raised |-> FALSE, status |-> IF launched THEN 0 ELSE 127]

\* Daemon.stop leaves `while 1: os.kill(pid, SIGTERM)` after the first kill
StopLoopLeftAtOnce(gone) == TRUE

\* Daemon.stop leaves `while 1: os.kill(pid, SIGTERM)` only by the OSError
\* that os.kill raises once the process is gone
StopLoopLeft(gone) == gone

\* a stop that leaves the pid file in place
StopKeeps(pid) == pid

\* Daemon.stop after the loop: os.remove(self.pidfile); what the pid file
\* holds afterwards (0: there is none)
StopRemoves(pid) == 0

\* a status that always reports a running service
StatusAlwaysRunning(pid) == 0

\* Daemon.status: the exit status for the pid read (0: None)
StatusCode(pid) == IF pid # 0 THEN 0 ELSE 3

\* a notifier whose dispatch waits until the commands of all others ended
OthersBlock(busy) == busy

\* each ThreadedNotifier is a thread of its own and os.system releases the
\* interpreter lock while the command runs: a command running in another
\* notifier's thread (busy) does not hold up a dispatch
Blocked(busy) == FALSE

(***************************************************************************)
(* State.                                                                  *)
(***************************************************************************)
VARIABLES
    mode,       \* the command line: "start" (daemonize) or "debug" (foreground)
    variant,    \* variant[w]: which section text watch w has
    pidfile,    \* "none", or "daemon" when it holds the daemon's pid
    dpc,        \* main thread: "cli", "setup", "start", "join", "exited", "killed"
    sec,        \* the section run() sets up next / the notifier it starts next
    startup,    \* "pending", "completed" (run returned), "failed" (run raised)
    exitcode,   \* the process's exit status, -1 while it runs
    mask,       \* mask[w]: the result of _parse_mask for section w
    subs,       \* subs[w]: directories with a kernel watch of w's WatchManager
    loop,       \* loop[w]: "none", "created", "running", "dead", "stopped"
    queue,      \* queue[w]: events the kernel queued on w's inotify descriptor
    cur,        \* cur[w]: <<>> or <<the dispatch whose os.system runs>>
    executed,   \* executed[w]: the os.system calls of notifier w, in order
    status,     \* status[n]: the watch and the fate of the n-th event
    faillog,    \* events with a "Failed to run command" line in the log
    stopPc,     \* the stop command: "idle", "kill", "stopped", "norun"
    sigterm,    \* a SIGTERM was sent to the daemon and is not yet delivered
    qPc,        \* quoting specification: "off", "input", "expanded", "parsed"
    qTmpl,      \*   the command template
    qName,      \*   the file name
    qCmd,       \*   the expanded command line
    qParse,     \*   what the shell makes of the command line and of the
                \*   quoted file name alone
    mPc,        \* mask specification: "off", "input", "done"
    mTokens,    \*   the token list given to _parse_mask
    mRet,       \*   what _parse_mask returned
    cCmd,       \* command-line specification: cCmd[i] is the command of
                \*   invocation i, "none" when it is not made
    cConf,      \*   cConf[i]: config.read found a file it could read
    cPc,        \*   cPc[i]: where invocation i (and the daemon it forks) is
    cPid,       \*   cPid[i]: the local pid read from the pid file, 0 for None
    cExit,      \*   cExit[i]: the exit status the caller sees, -1 before
    cPidfile,   \*   the pid in the pid file, 0 when there is no pid file
    cProc,      \*   cProc[p]: "none", "alive", "killed", "exited"
    cSig        \*   cSig[p]: a SIGTERM for process p is pending

daemonVars == <<mode, variant, pidfile, dpc, sec, startup, exitcode>>
watchVars == <<mask, subs, loop, queue, cur, executed, status, faillog>>
stopVars == <<stopPc, sigterm>>
quoteVars == <<qPc, qTmpl, qName, qCmd, qParse>>
maskVars == <<mPc, mTokens, mRet>>
cliVars == <<cCmd, cConf, cPc, cPid, cExit, cPidfile, cProc, cSig>>
\* the variables of the other specifications
sideVars == <<quoteVars, maskVars, cliVars>>
vars == <<daemonVars, watchVars, stopVars, sideVars>>

Config(w) == Section(w, variant[w])

Alive == dpc \in {"setup", "start", "join"}

QuoteOff ==
    /\ qPc = "off"
    /\ qTmpl = <<>>
    /\ qName = <<>>
    /\ qCmd = <<>>
    /\ qParse = <<>>

MaskOff ==
    /\ mPc = "off"
    /\ mTokens = <<>>
    /\ mRet = 0

\* the invocations of the command line, and the process ids: the daemon of
\* invocation i has pid i, OldPid is a daemon started before
Invocations == {1, 2}

OldPid == 3

Pids == Invocations \cup {OldPid}

CliOff ==
    /\ cCmd = [i \in Invocations |-> "none"]
    /\ cConf = [i \in Invocations |-> TRUE]
    /\ cPc = [i \in Invocations |-> "idle"]
    /\ cPid = [i \in Invocations |-> 0]
    /\ cExit = [i \in Invocations |-> -1]
    /\ cPidfile = 0
    /\ cProc = [p \in Pids |-> "none"]
    /\ cSig = [p \in Pids |-> FALSE]

DaemonInit ==
    /\ pidfile = "none"
    /\ dpc = "cli"
    /\ sec = 1
    /\ startup = "pending"
    /\ exitcode = -1
    /\ mask = [w \in Watches |-> 0]
    /\ subs = [w \in Watches |-> {}]
    /\ loop = [w \in Watches |-> "none"]
    /\ queue = [w \in Watches |-> <<>>]
    /\ cur = [w \in Watches |-> <<>>]
    /\ executed = [w \in Watches |-> <<>>]
    /\ status = <<>>
    /\ faillog = {}
    /\ stopPc = "idle"
    /\ sigterm = FALSE

\* the configurations drawn: at most one section departs from the base
\* one, or every section names the unknown placeholder
Configurations ==
    {c \in [Watches -> Variants] :
        \/ Cardinality({w \in Watches : c[w] # "base"}) <= 1
        \/ \A w \in Watches : c[w] = "badtmpl"}

Init ==
    /\ mode \in {"start", "debug"}
    /\ variant \in Configurations
    /\ DaemonInit
    /\ QuoteOff
    /\ MaskOff
    /\ CliOff

(***************************************************************************)
(* __main__ and Daemon.start: "start" refuses when the pid file holds a    *)
(* pid, else daemonizes (which writes the pid file and registers delpid    *)
(* to run at exit) and calls run(); "debug" calls run() in the foreground. *)
(***************************************************************************)
Start ==
    /\ dpc = "cli"
    /\ IF mode = "start" /\ pidfile # "none"
       THEN /\ dpc' = "exited"
            /\ exitcode' = 1
            /\ pidfile' = pidfile
       ELSE /\ dpc' = "setup"
            /\ exitcode' = exitcode
            /\ pidfile' = IF mode = "start" THEN "daemon" ELSE pidfile
    /\ UNCHANGED <<mode, variant, sec, startup, watchVars, stopVars, sideVars>>

\* the process ends: the kernel closes its inotify descriptors (every
\* subscription and every queued event goes) and its threads are gone
EndProcess(newloop) ==
    /\ subs' = [w \in Watches |-> {}]
    /\ queue' = [w \in Watches |-> <<>>]
    /\ cur' = [w \in Watches |-> <<>>]
    /\ loop' = newloop
    /\ status' = [n \in DOMAIN status |->
                    IF status[n].st = "queued"
                    THEN [status[n] EXCEPT !.st = "lost"]
                    ELSE status[n]]

(***************************************************************************)
(* WatcherDaemon.run, one pass of its first loop: read the section, then   *)
(* build its WatchManager, EventHandler, subscription and notifier.  An    *)
(* exception leaves run() and ends the process: the traceback is printed,  *)
(* delpid removes the pid file of a daemonized process, the status is 1.   *)
(***************************************************************************)
RunSetup ==
    /\ dpc = "setup"
    /\ LET w == sec
           s == Config(w)
       IN IF SetupRaises(s)
          THEN /\ dpc' = "exited"
               /\ exitcode' = 1
               /\ startup' = "failed"
               /\ pidfile' = IF mode = "start" THEN "none" ELSE pidfile
               /\ EndProcess(loop)
               /\ UNCHANGED <<sec, mask, sigterm>>
          ELSE /\ mask' = [mask EXCEPT ![w] = _parse_mask(Split(s.events))]
               /\ subs' = [subs EXCEPT ![w] =
                              AddWatch(s.watch, mask'[w],
                                       GetBoolean(s.recursive) = "True",
                                       s.excluded)]
               /\ loop' = [loop EXCEPT ![w] = "created"]
               /\ IF w = LastWatch
                  THEN dpc' = "start" /\ sec' = 1
                  ELSE dpc' = dpc /\ sec' = sec + 1
               /\ UNCHANGED <<exitcode, startup, pidfile, queue, cur, status,
                              sigterm>>
    /\ UNCHANGED <<mode, variant, executed, faillog, stopPc, sideVars>>

(***************************************************************************)
(* WatcherDaemon.run, one pass of its second loop: notifier.start().       *)
(* After the last one run() returns, __main__ calls sys.exit(0), and the   *)
(* interpreter waits for the notifier threads before it exits.             *)
(***************************************************************************)
RunStartNotifier ==
    /\ dpc = "start"
    /\ loop' = [loop EXCEPT ![sec] = "running"]
    /\ IF sec = LastWatch
       THEN dpc' = "join" /\ sec' = sec /\ startup' = "completed"
       ELSE dpc' = dpc /\ sec' = sec + 1 /\ startup' = startup
    /\ UNCHANGED <<mode, variant, pidfile, exitcode, mask, subs, queue, cur,
                   executed, status, faillog, stopVars, sideVars>>

\* an interpreter that does not wait for the notifier threads at exit
ThreadsNotAwaited(loops) == TRUE

\* sys.exit(0) in the main thread: the interpreter first waits until every
\* notifier thread (none is a daemon thread) has ended
ThreadsEnded(loops) == \A w \in Watches : loops[w] # "running"

\* the last notifier thread has ended: the interpreter runs the exit hooks
\* (delpid, when daemonized) and the process exits with status 0
ProcessExit ==
    /\ dpc = "join"
    /\ ThreadsEnded(loop)
    /\ dpc' = "exited"
    /\ exitcode' = 0
    /\ pidfile' = IF mode = "start" THEN "none" ELSE pidfile
    /\ EndProcess(loop)
    /\ UNCHANGED <<mode, variant, sec, startup, mask, executed, faillog,
                   stopVars, sideVars>>

(***************************************************************************)
(* The kernel reports an event of kind k on name (<<>>: the directory      *)
(* itself) in directory d to the inotify descriptor of watch w: only for a *)
(* directory that has a watch, and only kinds in the watch's mask.         *)
(***************************************************************************)
KernelEvent(w, d, k, name) ==
    /\ Alive
    /\ Len(status) < MaxEvents
    /\ d \in subs[w]
    /\ HasBit(mask[w], KindBit(k))
    /\ IF k \in SelfKinds THEN name = <<>> ELSE name \in FilesIn(d)
    /\ LET n == Len(status) + 1 IN
       /\ queue' = [queue EXCEPT ![w] =
                       Append(@, [seq |-> n, sub |-> w, dir |-> d, kind |-> k,
                                  name |-> name,
                                  cookie |-> IF k \in MoveKinds THEN n ELSE 0])]
       /\ status' = Append(status, [sub |-> w, st |-> "queued"])
    /\ UNCHANGED <<daemonVars, mask, subs, loop, cur, executed, faillog,
                   stopVars, sideVars>>

Remove(q, i) == SubSeq(q, 1, i - 1) \o SubSeq(q, i + 1, Len(q))

\* the thread of notifier w can take the next event: the process lives, the
\* thread is in its loop and not inside a handler, its inotify descriptor
\* has an event to read, and nothing holds the thread up
CanDispatch(w) ==
    /\ Alive
    /\ loop[w] = "running"
    /\ cur[w] = <<>>
    /\ queue[w] # <<>>
    /\ ~Blocked(\E v \in Watches \ {w} : cur[v] # <<>>)

(***************************************************************************)
(* The loop of notifier w takes an event from the queue of its own         *)
(* WatchManager and calls its handler: the method of the event's kind      *)
(* prints a line and calls run_command, which expands the template and     *)
(* calls os.system.  A KeyError or ValueError of Template.substitute is    *)
(* caught nowhere: it ends the notifier's thread.                          *)
(***************************************************************************)
LoopDispatch(w) ==
    /\ CanDispatch(w)
    /\ LET i == NextIndex(queue[w])
           e == queue[w][i]
           h == NotifierHandler(w)
           x == Expand(Config(h).command, e)
       IN /\ queue' = [queue EXCEPT ![w] = Remove(@, i)]
          /\ IF e.kind \notin HandledKinds
             THEN /\ status' = [status EXCEPT ![e.seq].st = "nohandler"]
                  /\ UNCHANGED <<loop, cur, executed>>
             ELSE IF x.err # "none"
             THEN /\ status' = [status EXCEPT ![e.seq].st = "templerr"]
                  /\ loop' = [loop EXCEPT ![w] = "dead"]
                  /\ UNCHANGED <<cur, executed>>
             ELSE /\ status' = [status EXCEPT ![e.seq].st = "launched"]
                  /\ cur' = [cur EXCEPT ![w] =
                               <<[ev |-> e, handler |-> h, cmd |-> x.text,
                                  printed |-> <<Label(e.kind),
                                                Pathname(e.dir, e.name)>>]>>]
                  /\ executed' = [executed EXCEPT ![w] =
                                    Append(@, [seq |-> e.seq, sub |-> e.sub,
                                               handler |-> h])]
                  /\ loop' = loop
    /\ UNCHANGED <<daemonVars, mask, subs, faillog, stopVars, sideVars>>

(***************************************************************************)
(* os.system returns in the thread of notifier w; launched tells whether   *)
(* the shell could start the command.  The except branch of run_command    *)
(* writes the "Failed to run command" line when os.system raised.          *)
(***************************************************************************)
CommandReturns(w, launched) ==
    /\ Alive
    /\ cur[w] # <<>>
    /\ LET c == cur[w][1]
           r == OsSystem(c.cmd, launched)
       IN /\ faillog' = IF r.raised THEN faillog \cup {c.ev.seq} ELSE faillog
          /\ status' = [status EXCEPT ![c.ev.seq].st =
                           IF r.status = 0 THEN "done" ELSE "nolaunch"]
    /\ cur' = [cur EXCEPT ![w] = <<>>]
    /\ UNCHANGED <<daemonVars, mask, subs, loop, queue, executed, stopVars,
                   sideVars>>

(***************************************************************************)
(* Daemon.stop: read the pid file; without a pid report and return; else   *)
(* send SIGTERM again and again until os.kill raises "No such process",    *)
(* then remove the pid file.                                               *)
(***************************************************************************)
StopRead ==
    /\ stopPc = "idle"
    /\ stopPc' = IF pidfile = "none" THEN "norun" ELSE "kill"
    /\ UNCHANGED <<daemonVars, watchVars, sigterm, sideVars>>

StopKill ==
    /\ stopPc = "kill"
    /\ IF StopLoopLeft(~Alive)
       THEN /\ stopPc' = "stopped"
            /\ pidfile' = "none"
            /\ sigterm' = IF Alive THEN TRUE ELSE sigterm
       ELSE /\ stopPc' = stopPc
            /\ pidfile' = pidfile
            /\ sigterm' = TRUE
    /\ UNCHANGED <<mode, variant, dpc, sec, startup, exitcode, watchVars,
                   sideVars>>

\* SIGTERM reaches the daemon: no handler is installed, the process ends
\* at once, without running its exit hooks
Terminate ==
    /\ Alive
    /\ sigterm
    /\ dpc' = "killed"
    /\ sigterm' = FALSE
    /\ EndProcess([w \in Watches |->
                     IF loop[w] = "running" THEN "stopped" ELSE loop[w]])
    /\ UNCHANGED <<mode, variant, pidfile, sec, startup, exitcode, mask,
                   executed, faillog, stopPc, sideVars>>

Next ==
    \/ Start
    \/ RunSetup
    \/ RunStartNotifier
    \/ ProcessExit
    \/ \E w \in Watches : \E d \in ExistingDirs : \E k \in Kinds :
          \E name \in {<<>>} \cup FilesIn(d) : KernelEvent(w, d, k, name)
    \/ \E w \in Watches : LoopDispatch(w)
    \/ \E w \in Watches : \E launched \in BOOLEAN : CommandReturns(w, launched)
    \/ StopRead
    \/ StopKill
    \/ Terminate

Spec == Init /\ [][Next]_vars

(***************************************************************************)
(* The quoting specification: run_command's expansion and the shell's      *)
(* reading of it, for every file name over ShellAlphabet up to MaxNameLen  *)
(* characters and three command templates: the placeholder as a word of    *)
(* its own, the placeholder glued to other text, and the placeholder       *)
(* inside double quotes of the template.                                   *)
(***************************************************************************)
ShellAlphabet == {"a", "'", " ", ";", "$", BackQuote, "\\", "\""}

RECURSIVE Texts(_)
Texts(n) ==
    IF n = 0 THEN {<<>>}
    ELSE LET shorter == Texts(n - 1) IN
         shorter \cup {Append(t, c) : t \in {s \in shorter : Len(s) = n - 1},
                                      c \in ShellAlphabet}

QuoteTemplates ==
    {<<"e", "c", "h", "o", " ", "$", "{", "f", "i", "l", "e", "n", "a", "m", "e", "}">>, <<"c", "p", " ", "$", "f", "i", "l", "e", "n", "a", "m", "e", " ", "$", "{", "f", "i", "l", "e", "n", "a", "m", "e", "}", ".", "b", "a", "k">>,
     <<"e", "c", "h", "o", " ", "\"", "$", "{", "f", "i", "l", "e", "n", "a", "m", "e", "}", "\"">>}

\* a CREATE event for the file called name in the first watched directory
QEvent(name) ==
    [seq |-> 1, sub |-> 1, dir |-> Root(1), kind |-> "IN_CREATE",
     name |-> name, cookie |-> 0]

QuoteIdle ==
    /\ mode = "debug"
    /\ variant = [w \in Watches |-> "base"]
    /\ DaemonInit

QuoteInit ==
    /\ QuoteIdle
    /\ qPc = "input"
    /\ qTmpl \in QuoteTemplates
    /\ qName \in Texts(MaxNameLen)
    /\ qCmd = <<>>
    /\ qParse = <<>>
    /\ MaskOff
    /\ CliOff

QuoteExpand ==
    /\ qPc = "input"
    /\ qCmd' = Expand(qTmpl, QEvent(qName)).text
    /\ qPc' = "expanded"
    /\ UNCHANGED <<daemonVars, watchVars, stopVars, maskVars, cliVars,
                   qTmpl, qName, qParse>>

QuoteParse ==
    /\ qPc = "expanded"
    /\ qParse' = <<ShParse(qCmd), ShParse(shellquote(qName))>>
    /\ qPc' = "parsed"
    /\ UNCHANGED <<daemonVars, watchVars, stopVars, maskVars, cliVars,
                   qTmpl, qName, qCmd>>

QuoteNext == QuoteExpand \/ QuoteParse

QuoteSpec == QuoteInit /\ [][QuoteNext]_vars

(***************************************************************************)
(* The mask specification: _parse_mask applied to every list of up to      *)
(* MaxTokens tokens, drawn from the fifteen names the function knows, a    *)
(* name with blanks around it, a name in another case, an unknown word and *)
(* the empty text (what "".split(",") holds).                              *)
(***************************************************************************)
TokenNames ==
    {<<"a", "c", "c", "e", "s", "s">>, <<"a", "t", "t", "r", "i", "b", "u", "t", "e", "_", "c", "h", "a", "n", "g", "e">>, <<"w", "r", "i", "t", "e", "_", "c", "l", "o", "s", "e">>, <<"n", "o", "w", "r", "i", "t", "e", "_", "c", "l", "o", "s", "e">>,
     <<"c", "r", "e", "a", "t", "e">>, <<"d", "e", "l", "e", "t", "e">>, <<"s", "e", "l", "f", "_", "d", "e", "l", "e", "t", "e">>, <<"m", "o", "d", "i", "f", "y">>, <<"s", "e", "l", "f", "_", "m", "o", "v", "e">>,
     <<"m", "o", "v", "e", "_", "f", "r", "o", "m">>, <<"m", "o", "v", "e", "_", "t", "o">>, <<"o", "p", "e", "n">>, <<"a", "l", "l">>, <<"m", "o", "v", "e">>, <<"c", "l", "o", "s", "e">>}

Tokens == TokenNames \cup {<<" ", "c", "r", "e", "a", "t", "e", " ">>, <<"C", "r", "e", "a", "t", "e">>, <<"b", "o", "g", "u", "s">>, <<>>}

TokenLists == UNION {[1..n -> Tokens] : n \in 0..MaxTokens}

MaskInit ==
    /\ QuoteIdle
    /\ QuoteOff
    /\ CliOff
    /\ mPc = "input"
    /\ mTokens \in TokenLists
    /\ mRet = 0

MaskParse ==
    /\ mPc = "input"
    /\ mRet' = _parse_mask(mTokens)
    /\ mPc' = "done"
    /\ UNCHANGED <<daemonVars, watchVars, stopVars, quoteVars, cliVars,
                   mTokens>>

MaskNext == MaskParse

MaskSpec == MaskInit /\ [][MaskNext]_vars

(***************************************************************************)
(* The command-line specification: up to two invocations of the script     *)
(* with the same pid file, each with one of its five commands and with a   *)
(* readable or an unreadable configuration, possibly while a daemon        *)
(* started before runs (or has died and left its pid file).  A step is one *)
(* system call's worth of Daemon.start, daemonize, stop or status, so that *)
(* the invocations interleave as processes do.                             *)
(***************************************************************************)
Commands == {"start", "stop", "restart", "status", "debug"}

CliInit ==
    /\ QuoteIdle
    /\ QuoteOff
    /\ MaskOff
    /\ cCmd \in {c \in [Invocations -> Commands \cup {"none"}] : c[1] # "none"}
    /\ cConf \in [Invocations -> BOOLEAN]
    /\ cPc = [i \in Invocations |-> IF cCmd[i] = "none" THEN "idle" ELSE "main"]
    /\ cPid = [i \in Invocations |-> 0]
    /\ cExit = [i \in Invocations |-> -1]
    /\ cPidfile \in {0, OldPid}
    /\ cProc \in {f \in [Pids -> {"none", "alive", "killed"}] :
                    /\ \A i \in Invocations : f[i] = "none"
                    /\ f[OldPid] = "none" <=> cPidfile = 0}
    /\ cSig = [p \in Pids |-> FALSE]

\* invocation i ends with exit status code
CliExit(i, code) ==
    /\ cPc' = [cPc EXCEPT ![i] = "exit"]
    /\ cExit' = [cExit EXCEPT ![i] = code]

\* stop() returns: restart goes on with start(), stop ends with sys.exit(0)
CliStopReturns(i) ==
    IF cCmd[i] = "restart"
    THEN cPc' = [cPc EXCEPT ![i] = "start"] /\ cExit' = cExit
    ELSE CliExit(i, 0)

\* __main__: read the configuration (exit 4 when no file could be read),
\* build the daemon object and call the method of the command
CliMain(i) ==
    /\ cPc[i] = "main"
    /\ IF ~cConf[i] THEN CliExit(i, 4)
       ELSE /\ cPc' = [cPc EXCEPT ![i] =
                         CASE cCmd[i] = "start" -> "start"
                           [] cCmd[i] = "stop" -> "stop"
                           [] cCmd[i] = "restart" -> "stop"
                           [] cCmd[i] = "status" -> "status"
                           [] cCmd[i] = "debug" -> "run"]
            /\ cExit' = cExit
    /\ UNCHANGED <<daemonVars, watchVars, stopVars, quoteVars, maskVars,
                   cCmd, cConf, cPid, cPidfile, cProc, cSig>>

\* Daemon.start up to daemonize(): read the pid file; with a pid in it
\* write the message and sys.exit(1)
CliStartRead(i) ==
    /\ cPc[i] = "start"
    /\ cPid' = [cPid EXCEPT ![i] = cPidfile]
    /\ IF cPidfile # 0 THEN CliExit(i, 1)
       ELSE cPc' = [cPc EXCEPT ![i] = "daemonize"] /\ cExit' = cExit
    /\ UNCHANGED <<daemonVars, watchVars, stopVars, quoteVars, maskVars,
                   cCmd, cConf, cPidfile, cProc, cSig>>

\* Daemon.daemonize, the forks: when os.fork fails the process exits with
\* 1; else the parent exits with 0 and the daemon (pid i) goes on
CliDaemonize(i, forked) ==
    /\ cPc[i] = "daemonize"
    /\ IF forked
       THEN /\ cExit' = [cExit EXCEPT ![i] = 0]
            /\ cProc' = [cProc EXCEPT ![i] = "alive"]
            /\ cPc' = [cPc EXCEPT ![i] = "writepid"]
       ELSE /\ CliExit(i, 1)
            /\ cProc' = cProc
    /\ UNCHANGED <<daemonVars, watchVars, stopVars, quoteVars, maskVars,
                   cCmd, cConf, cPid, cPidfile, cSig>>

\* Daemon.daemonize, its end: register delpid, write the pid file; then
\* start() calls run()
CliWritePid(i) ==
    /\ cPc[i] = "writepid"
    /\ cPidfile' = i
    /\ cPc' = [cPc EXCEPT ![i] = "run"]
    /\ UNCHANGED <<daemonVars, watchVars, stopVars, quoteVars, maskVars,
                   cCmd, cConf, cPid, cExit, cProc, cSig>>

\* run() has returned and the notifier threads have ended: sys.exit(0); a
\* daemon first runs delpid, which removes the pid file whatever it holds
CliRunEnds(i) ==
    /\ cPc[i] = "run"
    /\ IF cCmd[i] = "debug"
       THEN /\ CliExit(i, 0)
            /\ UNCHANGED <<cPidfile, cProc>>
       ELSE /\ cPc' = [cPc EXCEPT ![i] = "exit"]
            /\ cExit' = cExit
            /\ cPidfile' = 0
            /\ cProc' = [cProc EXCEPT ![i] = "exited"]
    /\ UNCHANGED <<daemonVars, watchVars, stopVars, quoteVars, maskVars,
                   cCmd, cConf, cPid, cSig>>

\* Daemon.stop, the read of the pid file: without a pid write the message
\* and return
CliStopRead(i) ==
    /\ cPc[i] = "stop"
    /\ cPid' = [cPid EXCEPT ![i] = cPidfile]
    /\ IF cPidfile = 0 THEN CliStopReturns(i)
       ELSE cPc' = [cPc EXCEPT ![i] = "kill"] /\ cExit' = cExit
    /\ UNCHANGED <<daemonVars, watchVars, stopVars, quoteVars, maskVars,
                   cCmd, cConf, cPidfile, cProc, cSig>>

\* Daemon.stop, one pass of `while 1: os.kill(pid, SIGTERM)`: the signal is
\* sent to a live process; for a process that is gone os.kill raises, the
\* pid file is removed and stop returns
CliStopKill(i) ==
    /\ cPc[i] = "kill"
    /\ IF StopLoopLeft(cProc[cPid[i]] # "alive")
       THEN /\ cPidfile' = StopRemoves(cPidfile)
            /\ CliStopReturns(i)
            /\ cSig' = cSig
       ELSE /\ cSig' = [cSig EXCEPT ![cPid[i]] = TRUE]
            /\ UNCHANGED <<cPidfile, cPc, cExit>>
    /\ UNCHANGED <<daemonVars, watchVars, stopVars, quoteVars, maskVars,
                   cCmd, cConf, cPid, cProc>>

\* Daemon.status: read the pid file, print and exit with 0 or 3
CliStatus(i) ==
    /\ cPc[i] = "status"
    /\ cPid' = [cPid EXCEPT ![i] = cPidfile]
    /\ CliExit(i, StatusCode(cPidfile))
    /\ UNCHANGED <<daemonVars, watchVars, stopVars, quoteVars, maskVars,
                   cCmd, cConf, cPidfile, cProc, cSig>>

\* SIGTERM reaches daemon p: it ends at once, its exit hooks do not run
CliTerminate(p) ==
    /\ cSig[p]
    /\ cProc[p] = "alive"
    /\ cProc' = [cProc EXCEPT ![p] = "killed"]
    /\ cSig' = [cSig EXCEPT ![p] = FALSE]
    /\ cPc' = [i \in Invocations |-> IF i = p THEN "exit" ELSE cPc[i]]
    /\ UNCHANGED <<daemonVars, watchVars, stopVars, quoteVars, maskVars,
                   cCmd, cConf, cPid, cExit, cPidfile>>

CliNext ==
    \/ \E i \in Invocations : CliMain(i)
    \/ \E i \in Invocations : CliStartRead(i)
    \/ \E i \in Invocations : \E forked \in BOOLEAN : CliDaemonize(i, forked)
    \/ \E i \in Invocations : CliWritePid(i)
    \/ \E i \in Invocations : CliRunEnds(i)
    \/ \E i \in Invocations : CliStopRead(i)
    \/ \E i \in Invocations : CliStopKill(i)
    \/ \E i \in Invocations : CliStatus(i)
    \/ \E p \in Pids : CliTerminate(p)

CliSpec == CliInit /\ [][CliNext]_vars

\* processes get to run: a pending signal is delivered, and a stop inside
\* its loop makes its next pass
CliFairness ==
    /\ \A p \in Pids : WF_vars(CliTerminate(p))
    /\ \A i \in Invocations : WF_vars(CliStopKill(i))

CliFairSpec == CliSpec /\ CliFairness

(***************************************************************************)
(* Properties.                                                             *)
(***************************************************************************)
\* how often notifier w called os.system for event n
TimesExecuted(w, n) ==
    Cardinality({i \in DOMAIN executed[w] : executed[w][i].seq = n})

\* the event left the queue and reached the notifier's handler call, and
\* its template expanded
Handled(n) == status[n].st \in {"launched", "done", "nolaunch", "nohandler"}

\* C1: every event of a kind in the watch's mask that the kernel delivered
\* and the watch's loop took up had its command executed exactly once,
\* whichever of the twelve kinds it is.
C1_EveryDeliveredKindRunsCommandOnce ==
    \A n \in DOMAIN status :
        Handled(n) => TimesExecuted(status[n].sub, n) = 1

\* what the shell's reading of a command line shows of its structure: the
\* number of commands, of words in each, of ";" operators, and whether
\* anything in it is expanded or left open
Shape(p) ==
    [ncmds |-> Len(p.cmds),
     nwords |-> [i \in DOMAIN p.cmds |-> Len(p.cmds[i])],
     seps |-> p.seps, active |-> p.active, closed |-> p.closed]

\* the shell reads the quoted text as exactly one word, the original text
RoundTrip(parsed, text) ==
    parsed = [cmds |-> << <<text>> >>, seps |-> 0, active |-> FALSE,
              closed |-> TRUE]

\* the command line the template gives for the plain file name "a"
PlainNameCommand(template) == Expand(template, QEvent(<<"a">>)).text

\* every "$" of the template stands where the shell is outside quotes and
\* not behind a backslash
PlaceholdersUnquoted(template) ==
    \A i \in DOMAIN template :
        template[i] = "$" => ShModeAt(template, 1, i - 1, "plain") = "plain"

\* the template read by the shell with a one-letter word X for every
\* placeholder, and a word of it with the value put back for X
Skeleton(template) ==
    ShParse(substitute(template,
                       [n \in DOMAIN Placeholders(QEvent(<<>>)) |-> <<"X">>]).text)

RECURSIVE Fill(_, _)
Fill(word, value) ==
    IF word = <<>> THEN <<>>
    ELSE (IF Head(word) = "X" THEN value ELSE <<Head(word)>>)
         \o Fill(Tail(word), value)

\* C2 as stated: the shell reads shellquote's text as one word equal to the
\* original, and the expanded command line has the same commands and words
\* for every file name (as for the plain name "a").
C2_SameCommandsForEveryFileName ==
    qPc = "parsed" =>
        /\ RoundTrip(qParse[2], qName)
        /\ Shape(qParse[1]) = Shape(ShParse(PlainNameCommand(qTmpl)))

\* C2 as amended: the shell reads shellquote's text as one word equal to the
\* original; and when the template's placeholders stand outside quotes, the
\* expanded command line has the template's commands and words, with the
\* file's path whole inside the words that name it, for every file name.
C2_QuotedValueIsOneWord ==
    qPc = "parsed" =>
        /\ RoundTrip(qParse[2], qName)
        /\ PlaceholdersUnquoted(qTmpl) =>
              LET skel == Skeleton(qTmpl)
                  path == Pathname(Root(1), qName)
              IN /\ Shape(qParse[1]) = Shape(skel)
                 /\ Shape(qParse[1]) = Shape(ShParse(PlainNameCommand(qTmpl)))
                 /\ \A i \in DOMAIN skel.cmds : \A j \in DOMAIN skel.cmds[i] :
                       qParse[1].cmds[i][j] = Fill(skel.cmds[i][j], path)
                 /\ ~qParse[1].active
                 /\ qParse[1].closed

\* a file name holding a single quote and a ";" was expanded into a
\* template with unquoted placeholders and read by the shell
C2_Witness ==
    /\ qPc = "parsed"
    /\ PlaceholdersUnquoted(qTmpl)
    /\ \E i, j \in DOMAIN qName : qName[i] = "'" /\ qName[j] = ";"

\* C3: every event a notifier takes up comes from its own watch's
\* subscription, and the command run for it is expanded by that watch's own
\* handler from that watch's own template.
C3_NoCrossWatchDispatch ==
    \A w \in Watches :
        /\ \A i \in DOMAIN queue[w] :
              queue[w][i].sub = w /\ queue[w][i].dir \in {Root(w), SubDir(w)}
        /\ \A i \in DOMAIN executed[w] :
              executed[w][i].sub = w /\ executed[w][i].handler = w
        /\ cur[w] # <<>> =>
              /\ cur[w][1].ev.sub = w
              /\ cur[w][1].handler = w
              /\ cur[w][1].cmd = Expand(Config(w).command, cur[w][1].ev).text

\* both watches run a command at once, each for an event of its own, from
\* different templates
C3_Witness ==
    /\ cur[1] # <<>>
    /\ cur[2] # <<>>
    /\ Config(1).command # Config(2).command

\* the notifier of watch w has been started
Started(w) == loop[w] \in {"running", "dead", "stopped"}

\* C4: once startup has ended, with or without a failing watch, every watch
\* whose own setup succeeds has been subscribed and its loop started.
C4_OtherWatchesStillStart ==
    startup # "pending" =>
        \A w \in Watches : ~SetupRaises(Config(w)) => Started(w)

\* C5: after the expansion of an event failed on an unknown placeholder,
\* the watch's loop keeps running (while the daemon does).
C5_LoopSurvivesTemplateError ==
    \A n \in DOMAIN status :
        (status[n].st = "templerr" /\ Alive) => loop[status[n].sub] = "running"

\* C6: for every event whose command could not be launched there is a
\* "Failed to run command" line in the log, and the watch's loop and
\* subscription are as they were.
C6_LaunchFailureIsLogged ==
    \A n \in DOMAIN status :
        status[n].st = "nolaunch" =>
            /\ n \in faillog
            /\ Alive => loop[status[n].sub] = "running"

\* C7: within one watch, commands are executed in the order of the events,
\* and a command has returned before the next one is executed.
C7_CommandsInEventOrder ==
    \A w \in Watches : \A i, j \in DOMAIN executed[w] :
        i < j =>
            /\ executed[w][i].seq < executed[w][j].seq
            /\ status[executed[w][i].seq].st \in {"done", "nolaunch"}

\* one watch has executed the commands of two events
C7_Witness == \E w \in Watches : Len(executed[w]) >= 2

\* everything of the daemon is gone: no process, no running loop, no
\* subscription, no queued event, no command being dispatched
Released ==
    /\ ~Alive
    /\ \A w \in Watches :
          loop[w] # "running" /\ subs[w] = {} /\ queue[w] = <<>>
          /\ cur[w] = <<>>

\* C8: once a stop that signalled the daemon has completed, every loop has
\* ended and every subscription is released, and from then on no command
\* is dispatched.
C8_NothingRunsAfterStop ==
    /\ [](stopPc = "stopped" => Released)
    /\ [][stopPc = "stopped" => executed' = executed]_vars

\* stop has completed on a daemon that it killed while a loop was running
\* and had dispatched a command
C8_Witness ==
    /\ stopPc = "stopped"
    /\ dpc = "killed"
    /\ \E w \in Watches : loop[w] = "stopped" /\ executed[w] # <<>>

\* C9: a running loop belongs to a watch whose subscription was registered.
C9_RunningLoopHasSubscription ==
    \A w \in Watches : loop[w] = "running" => Config(w).watch \in subs[w]

\* the path matches one of the patterns of a non-blank exclusion list
MatchesExcluded(w, path) ==
    /\ Strip(Config(w).excluded) # <<>>
    /\ ExcludeFilter(Split(Config(w).excluded), path)

\* the directories add_watch walks for watch w that exist
WalkedDirs(w) ==
    {d \in ExistingDirs :
        \/ d = Config(w).watch
        \/ GetBoolean(Config(w).recursive) = "True"
           /\ d \in SubDirsOf(Config(w).watch)}

\* a watch with a blank exclusion list, once set up with a mask, has a
\* subscription on every directory it walks
BlankFiltersNothing ==
    \A w \in Watches :
        (Alive /\ loop[w] # "none" /\ mask[w] # 0
         /\ Strip(Config(w).excluded) = <<>>) => subs[w] = WalkedDirs(w)

\* C10 as stated: no event whose path matches a pattern of the watch's
\* exclusion list is logged or dispatched; a blank list filters nothing.
C10_MatchingEventNotDispatched ==
    /\ \A w \in Watches :
          cur[w] # <<>> =>
              ~MatchesExcluded(w, Pathname(cur[w][1].ev.dir, cur[w][1].ev.name))
    /\ BlankFiltersNothing

\* C10 as amended: a directory whose path matches a pattern of the watch's
\* exclusion list is never subscribed, so no event reported for that
\* directory is queued, logged or dispatched; a blank list filters nothing.
C10_ExcludedDirectoryNotWatched ==
    /\ \A w \in Watches :
          /\ \A d \in subs[w] : ~MatchesExcluded(w, d)
          /\ \A i \in DOMAIN queue[w] : ~MatchesExcluded(w, queue[w][i].dir)
          /\ cur[w] # <<>> => ~MatchesExcluded(w, cur[w][1].ev.dir)
    /\ BlankFiltersNothing

\* a recursive watch with patterns has its root subscribed and its
\* matching subdirectory not, and dispatches an event the root reports for
\* a file whose path matches a pattern
C10_Witness ==
    \E w \in Watches :
        /\ Strip(Config(w).excluded) # <<>>
        /\ Root(w) \in subs[w]
        /\ MatchesExcluded(w, SubDir(w))
        /\ SubDir(w) \in WalkedDirs(w)
        /\ SubDir(w) \notin subs[w]
        /\ cur[w] # <<>>
        /\ MatchesExcluded(w, Pathname(cur[w][1].ev.dir, cur[w][1].ev.name))

\* notifier w is running, idle, and has an event waiting
Ready(w) == Alive /\ loop[w] = "running" /\ cur[w] = <<>> /\ queue[w] # <<>>

Recognized(token) == Strip(token) \in TokenNames

\* the kinds the table of event names gives for a name
TableKinds(name) ==
    CASE name = <<"a", "c", "c", "e", "s", "s">> -> {"IN_ACCESS"}
      [] name = <<"a", "t", "t", "r", "i", "b", "u", "t", "e", "_", "c", "h", "a", "n", "g", "e">> -> {"IN_ATTRIB"}
      [] name = <<"w", "r", "i", "t", "e", "_", "c", "l", "o", "s", "e">> -> {"IN_CLOSE_WRITE"}
      [] name = <<"n", "o", "w", "r", "i", "t", "e", "_", "c", "l", "o", "s", "e">> -> {"IN_CLOSE_NOWRITE"}
      [] name = <<"c", "r", "e", "a", "t", "e">> -> {"IN_CREATE"}
      [] name = <<"d", "e", "l", "e", "t", "e">> -> {"IN_DELETE"}
      [] name = <<"s", "e", "l", "f", "_", "d", "e", "l", "e", "t", "e">> -> {"IN_DELETE_SELF"}
      [] name = <<"m", "o", "d", "i", "f", "y">> -> {"IN_MODIFY"}
      [] name = <<"s", "e", "l", "f", "_", "m", "o", "v", "e">> -> {"IN_MOVE_SELF"}
      [] name = <<"m", "o", "v", "e", "_", "f", "r", "o", "m">> -> {"IN_MOVED_FROM"}
      [] name = <<"m", "o", "v", "e", "_", "t", "o">> -> {"IN_MOVED_TO"}
      [] name = <<"o", "p", "e", "n">> -> {"IN_OPEN"}
      [] name = <<"m", "o", "v", "e">> -> {"IN_MOVED_FROM", "IN_MOVED_TO"}
      [] name = <<"c", "l", "o", "s", "e">> -> {"IN_CLOSE_WRITE", "IN_CLOSE_NOWRITE"}
      [] name = <<"a", "l", "l">> -> Kinds
      [] OTHER -> {}

\* the kinds the tokens of a list name together
KindsOf(tokens) ==
    UNION {TableKinds(Strip(tokens[i])) : i \in DOMAIN tokens}

\* the kinds whose bit is set in a mask
KindsIn(m) == {k \in Kinds : HasBit(m, KindBit(k))}

RECURSIVE SumOfBits(_)
SumOfBits(ks) ==
    IF ks = {} THEN 0
    ELSE LET k == CHOOSE x \in ks : TRUE IN KindBit(k) + SumOfBits(ks \ {k})

\* every reordering of a list
Reorderings(s) ==
    {[i \in DOMAIN s |-> s[f[i]]] :
        f \in {g \in [DOMAIN s -> DOMAIN s] :
                  \A i, j \in DOMAIN s : i # j => g[i] # g[j]}}

\* C12: for a list of recognized tokens _parse_mask returns the bitwise OR
\* of the table values of its tokens, the same for every order of the list
\* and with any of its tokens repeated.
C12_MaskIsOrOfTable ==
    (mPc = "done" /\ \A i \in DOMAIN mTokens : Recognized(mTokens[i])) =>
        /\ mRet = SumOfBits(KindsOf(mTokens))
        /\ KindsIn(mRet) = KindsOf(mTokens)
        /\ \A p \in Reorderings(mTokens) : _parse_mask(p) = mRet
        /\ \A i \in DOMAIN mTokens :
              _parse_mask(Append(mTokens, mTokens[i])) = mRet

\* a list of three recognized tokens was parsed: a composite name, a
\* primitive one it does not cover, and the composite again
C12_Witness ==
    /\ mPc = "done"
    /\ Len(mTokens) = 3
    /\ mTokens[1] = <<"m", "o", "v", "e">>
    /\ mTokens[2] = <<"c", "r", "e", "a", "t", "e">>
    /\ mTokens[3] = <<"m", "o", "v", "e">>
    /\ mRet = IN_MOVED_FROM + IN_MOVED_TO + IN_CREATE

\* the list without its unrecognized tokens
RECURSIVE OnlyRecognized(_)
OnlyRecognized(tokens) ==
    IF tokens = <<>> THEN <<>>
    ELSE (IF Recognized(Head(tokens)) THEN <<Head(tokens)>> ELSE <<>>)
         \o OnlyRecognized(Tail(tokens))

\* C13: _parse_mask returns for every list what it returns for the list
\* without its unrecognized tokens; a token counts as recognized when, with
\* the blanks around it removed, it is one of the names letter for letter.
C13_UnrecognizedTokensIgnored ==
    mPc = "done" =>
        /\ mRet = _parse_mask(OnlyRecognized(mTokens))
        /\ KindsIn(mRet) = KindsOf(mTokens)

\* a list was parsed that holds a name in the wrong case first, then a name
\* with blanks around it, then an unknown word
C13_Witness ==
    /\ mPc = "done"
    /\ Len(mTokens) = 3
    /\ mTokens[1] = <<"C", "r", "e", "a", "t", "e">>
    /\ mTokens[2] = <<" ", "c", "r", "e", "a", "t", "e", " ">>
    /\ mTokens[3] = <<"b", "o", "g", "u", "s">>
    /\ mRet = IN_CREATE

\* C14: for a list without any recognized token _parse_mask returns the
\* empty mask: no bit of an event kind is set in it.
C14_NoRecognizedTokenEmptyMask ==
    (mPc = "done" /\ \A i \in DOMAIN mTokens : ~Recognized(mTokens[i])) =>
        /\ mRet = 0
        /\ KindsIn(mRet) = {}

\* the list that a blank "events" value splits into was parsed
C14_Witness ==
    /\ mPc = "done"
    /\ mTokens = Split(<<>>)
    /\ Len(mTokens) = 1
    /\ mRet = 0

\* a text without single quotes, in single quotes
Quoted(text) == <<"'">> \o text \o <<"'">>

\* the path an event is about, put together from its parts
FullPath(e) == IF e.name = <<>> THEN e.dir ELSE e.dir \o <<"/">> \o e.name

\* the command line expected for an event from each command template of
\* the configurations; dollars is the text expected where the template has
\* two dollar signs
ExpectedCommand(template, e, dollars) ==
    CASE template = <<"e", "c", "h", "o", " ", "$", "{", "f", "i", "l", "e", "n", "a", "m", "e", "}">> ->
            <<"e", "c", "h", "o", " ">> \o Quoted(FullPath(e))
      [] template = <<"l", "o", "g", " ", "$", "t", "f", "l", "a", "g", "s", " ", "$", "{", "n", "f", "l", "a", "g", "s", "}", " ", "$", "c", "o", "o", "k", "i", "e", " ", "$", "{", "w", "a", "t", "c", "h", "e", "d", "}">> ->
            <<"l", "o", "g", " ">> \o Quoted(KindText(e.kind)) \o <<" ">>
            \o Quoted(IntToStr(KindBit(e.kind))) \o <<" ">>
            \o Quoted(IntToStr(e.cookie)) \o <<" ">> \o Quoted(e.dir)
      [] template = <<"e", "c", "h", "o", " ", "$", "$", " ", "$", "{", "f", "i", "l", "e", "n", "a", "m", "e", "}">> ->
            <<"e", "c", "h", "o", " ">> \o dollars \o <<" ">> \o Quoted(FullPath(e))

\* the example: a watch with events create,delete and the command
\* echo ${filename}, and /tmp/x/a.txt created
IsExample(w, e) ==
    /\ Config(w).events = <<"c", "r", "e", "a", "t", "e", ",", "d", "e", "l", "e", "t", "e">>
    /\ Config(w).command = <<"e", "c", "h", "o", " ", "$", "{", "f", "i", "l", "e", "n", "a", "m", "e", "}">>
    /\ e.kind = "IN_CREATE"
    /\ e.dir = <<"/", "t", "m", "p", "/", "x">>
    /\ e.name = <<"a", ".", "t", "x", "t">>

\* every dispatched command is the expected one, and the example's is
\* echo '/tmp/x/a.txt'
DispatchedAsExpected(dollars) ==
    \A w \in Watches :
        cur[w] # <<>> =>
            LET c == cur[w][1] IN
            /\ c.cmd = ExpectedCommand(Config(w).command, c.ev, dollars)
            /\ IsExample(w, c.ev) => c.cmd = <<"e", "c", "h", "o", " ", "'", "/", "t", "m", "p", "/", "x", "/", "a", ".", "t", "x", "t", "'">>

\* C15 as stated: the dispatched command is the template with the five
\* placeholders replaced by the quoted values of the event and nothing else
\* changed (two dollar signs of the template stay two dollar signs).
C15_OnlyPlaceholdersChange == DispatchedAsExpected(<<"$", "$">>)

\* C15 as amended: the dispatched command is the template with the five
\* placeholders replaced by the quoted values of the event, every pair of
\* dollar signs replaced by one dollar sign, and nothing else changed.
C15_PlaceholdersAndDollarPairs == DispatchedAsExpected(<<"$">>)

\* the command of the example is being run
C15_Witness ==
    \E w \in Watches :
        /\ cur[w] # <<>>
        /\ IsExample(w, cur[w][1].ev)
        /\ cur[w][1].cmd = <<"e", "c", "h", "o", " ", "'", "/", "t", "m", "p", "/", "x", "/", "a", ".", "t", "x", "t", "'">>

\* the template of watch w has the cookie placeholder as its fourth word
HasCookieWord(w) ==
    Config(w).command = <<"l", "o", "g", " ", "$", "t", "f", "l", "a", "g", "s", " ", "$", "{", "n", "f", "l", "a", "g", "s", "}", " ", "$", "c", "o", "o", "k", "i", "e", " ", "$", "{", "w", "a", "t", "c", "h", "e", "d", "}">>

\* C16: for an event of a kind other than the two halves of a rename, the
\* shell reads the word that stands for the cookie placeholder as 0; the
\* placeholder alone expands to the quoted 0 without an error, and the only
\* template whose expansion ever fails is the one with the unknown name.
C16_NoCookieMeansZero ==
    /\ \A w \in Watches :
          (cur[w] # <<>> /\ cur[w][1].ev.kind \notin MoveKinds) =>
              /\ Expand(<<"$", "{", "c", "o", "o", "k", "i", "e", "}">>, cur[w][1].ev) =
                    [err |-> "none", text |-> <<"'", "0", "'">>]
              /\ HasCookieWord(w) =>
                    ShParse(cur[w][1].cmd).cmds[1][4] = <<"0">>
    /\ \A n \in DOMAIN status :
          status[n].st = "templerr" =>
              Config(status[n].sub).command = <<"e", "c", "h", "o", " ", "$", "{", "f", "i", "l", "e", "}">>

\* the command of a CREATE event is being run from a template with the
\* cookie placeholder
C16_Witness ==
    \E w \in Watches :
        /\ cur[w] # <<>>
        /\ HasCookieWord(w)
        /\ cur[w][1].ev.kind = "IN_CREATE"

\* C18: while the loop of a watch is running the process is alive; it has
\* not exited, the pid file of a daemonized process is in place, and once
\* all loops are started the main thread does nothing but wait for them.
C18_NoExitWhileLoopRuns ==
    (\E w \in Watches : loop[w] = "running") =>
        /\ Alive
        /\ exitcode = -1
        /\ mode = "start" => pidfile = "daemon"
        /\ startup = "completed" => dpc = "join"

\* the main thread waits: one loop has ended and another is still running
C18_Witness ==
    /\ dpc = "join"
    /\ \E w \in Watches : loop[w] = "dead"
    /\ \E w \in Watches : loop[w] = "running"

\* invocation i has ended in start() because the pid file held a pid
Refused(i) ==
    /\ cCmd[i] \in {"start", "restart"}
    /\ cPc[i] = "exit"
    /\ cProc[i] = "none"
    /\ cPid[i] # 0

\* the exit statuses of the invocations: 4 and nothing done for an
\* unreadable configuration; 0 or 3 for status; 1 without a fork for a
\* refused start; 0 for a stop, a debug run and a start that forked
ExitCodes ==
    \A i \in Invocations :
        /\ cExit[i] \in {-1, 0, 1, 3, 4}
        /\ (cCmd[i] # "none" /\ ~cConf[i]) =>
              /\ cPc[i] \in {"main", "exit"}
              /\ cPc[i] = "exit" => cExit[i] = 4
              /\ cProc[i] = "none"
        /\ (cConf[i] /\ cPc[i] = "exit") =>
              /\ cCmd[i] = "status" => cExit[i] = (IF cPid[i] # 0 THEN 0 ELSE 3)
              /\ Refused(i) => cExit[i] = 1
              /\ cCmd[i] \in {"stop", "debug"} => cExit[i] = 0
        /\ cProc[i] # "none" => cExit[i] = 0
        /\ cExit[i] = 4 => ~cConf[i]

\* the step in which start() finds a pid in the pid file ends the
\* invocation with 1 and changes neither the pid file nor any process
RefusalChangesNothing ==
    \A i \in Invocations :
        (cPc[i] = "start" /\ cPc'[i] # "start" /\ cPidfile # 0) =>
            /\ cPc'[i] = "exit"
            /\ cExit'[i] = 1
            /\ cPidfile' = cPidfile
            /\ cProc' = cProc

\* C17: the command line ends with the documented exit statuses: start with
\* a pid in the pid file exits 1 without forking and without changing the
\* pid file; status exits 0 with a pid in the pid file and 3 without; an
\* unreadable configuration exits 4 before anything is done; a completed
\* command exits 0.
C17_DocumentedExitCodes == []ExitCodes /\ [][RefusalChangesNothing]_vars

\* a start was refused with status 1 while the pid file held the pid of
\* the running daemon, and a status invocation ended with 0
C17_Witness ==
    \E i, j \in Invocations :
        /\ cCmd[i] = "start" /\ Refused(i) /\ cExit[i] = 1
        /\ cPidfile = OldPid /\ cProc[OldPid] = "alive"
        /\ cCmd[j] = "status" /\ cPc[j] = "exit" /\ cExit[j] = 0

\* C19: of the start invocations that use the pid file at most one is in
\* run(), and the pid file names the instance that is in run().
C19_OneInstancePerPidfile ==
    /\ Cardinality({i \in Invocations :
                       cCmd[i] = "start" /\ cPc[i] = "run"}) <= 1
    /\ \A i \in Invocations :
          (cCmd[i] = "start" /\ cPc[i] = "run") => cPidfile = i

\* the step in which stop() leaves its loop: the signalled process is gone,
\* the pid file is removed, and stop returns (restart goes on to start)
StopLeavesClean ==
    \A i \in Invocations :
        (cPc[i] = "kill" /\ cPc'[i] # "kill") =>
            /\ cProc[cPid[i]] # "alive"
            /\ cPidfile' = 0
            /\ cPc'[i] = (IF cCmd[i] = "restart" THEN "start" ELSE "exit")
            /\ cCmd[i] = "stop" => cExit'[i] = 0

\* the step in which stop() finds no pid file: it returns without exiting
StopWithoutPidfileReturns ==
    \A i \in Invocations :
        (cPc[i] = "stop" /\ cPc'[i] # "stop" /\ cPidfile = 0) =>
            /\ cPc'[i] = (IF cCmd[i] = "restart" THEN "start" ELSE "exit")
            /\ cCmd[i] = "stop" => cExit'[i] = 0
            /\ cPidfile' = 0

\* a restart that is the only invocation is never refused by its start
LoneRestartStarts ==
    \A i \in Invocations :
        (cCmd[i] = "restart" /\ \A j \in Invocations \ {i} : cCmd[j] = "none")
            => ~Refused(i)

\* C20: a stop whose signalled process dies leaves its loop with the pid
\* file removed and returns; without a pid file stop returns without
\* exiting; so the start of a restart is not refused.
C20_StopLeavesStartable ==
    /\ \A i \in Invocations : (cPc[i] = "kill") ~> (cPc[i] # "kill")
    /\ [][StopLeavesClean /\ StopWithoutPidfileReturns]_vars
    /\ []LoneRestartStarts

\* a lone restart has killed the daemon that was running and its own
\* daemon is in run(), named by the pid file
C20_Witness ==
    \E i \in Invocations :
        /\ cCmd[i] = "restart"
        /\ \A j \in Invocations \ {i} : cCmd[j] = "none"
        /\ cProc[OldPid] = "killed"
        /\ cPc[i] = "run"
        /\ cPidfile = i

=============================================================================
